---- MODULE Spec2Model ----
(***************************************************************************)
(* A model of data_toolbox: file_utils.py (suffix traversal and the three  *)
(* document readers) and plot_utils.py (the dual Y-axis plots and the      *)
(* grouped boxplot).  A caller invokes one function at a time             *)
(* (the code is synchronous and single-threaded); every function runs as  *)
(* a sequence of steps, one per statement or loop iteration, and the       *)
(* library calls it makes inside a try block may raise at any step.        *)
(*                                                                         *)
(* Strings that the code inspects (file names, suffixes, tick labels) are  *)
(* sequences of characters; texts that it only copies are TLA+ strings.    *)
(* Lengths in inches are kept in tenths of an inch, so that len(x) / 10    *)
(* and 0.2 * max_label_length stay exact.                                  *)
(***************************************************************************)
EXTENDS Integers, Sequences, FiniteSets

VARIABLES
    pc,       \* the position of the running call ("idle": the caller's turn)
    fn,       \* the function that is running or has just returned
    arg,      \* the arguments of the call
    ret,      \* the outcome of the call: pending, a value, None or a raise
    printed,  \* what the call has printed to stdout, in order
    exc,      \* the exception a library call raised in this call ("none")
    acc,      \* the list under construction (target_files, ppt_texts, ...)
    i,        \* the outer loop index (slide, paragraph, page)
    j,        \* the inner loop index (shape)
    stack,    \* os.walk: the directories still to be visited
    handles,  \* the file handles that are open in the process
    hnd,      \* read_pdf_document: the handle it opened (0: none yet)
    backend,  \* matplotlib: "agg" (show returns at once) or "interactive"
    figs,     \* matplotlib: the figure objects, by figure number
    open,     \* pyplot: the numbers of the figures it manages
    fig,      \* the call's matplotlib figure: its number (0: none yet)
    pfig,     \* the call's plotly figure
    labels    \* boxplot_by_column: the x-tick labels it read

vars == <<pc, fn, arg, ret, printed, exc, acc, i, j, stack, handles, hnd,
          backend, figs, open, fig, pfig, labels>>

fileVars == <<acc, i, j, stack, handles, hnd>>
plotVars == <<backend, figs, open, fig, pfig, labels>>

----------------------------------------------------------------------------
(* Bounds of the model *)

MaxEntries == 3     \* entries (files and directories) of a directory tree
MaxDepth == 2       \* nesting depth of a directory tree
MaxSlides == 2      \* slides of a presentation
MaxUnits == 2       \* shapes of a presentation, paragraphs, pages
MaxPts == 1         \* points of a plotted series
MaxLenX == 105      \* points of a series when the figure width is swept
MaxRows == 2        \* rows of a data frame
MaxFigs == 2        \* figures that pyplot holds open at a time

----------------------------------------------------------------------------
(* Values *)

Pending == [kind |-> "pending", val |-> <<>>]
NoneResult == [kind |-> "None", val |-> <<>>]
Value(v) == [kind |-> "value", val |-> v]
Raise(e) == [kind |-> "raise", val |-> e]

NoArg == [none |-> TRUE]
NoFig == 0
NoPlotlyFig == [data |-> <<>>, layout |-> [none |-> TRUE]]

Max(a, b) == IF a >= b THEN a ELSE b

RECURSIVE SeqsUpTo(_, _)
SeqsUpTo(S, n) ==
    IF n = 0 THEN {<<>>}
    ELSE LET R == SeqsUpTo(S, n - 1)
         IN  R \cup {Append(s, x) : s \in {r \in R : Len(r) = n - 1}, x \in S}

Range(s) == {s[k] : k \in 1..Len(s)}

Perms(S) == {p \in [1..Cardinality(S) -> S] : Range(p) = S}

----------------------------------------------------------------------------
(* get_all_suffix_files: the directory tree, str.endswith, os.path.join   *)

Names == { <<"a", ".", "c">>, <<".", "c">>, <<"c">>, <<".", "c", "a">> }
Suffixes == { <<>>, <<".", "c">>, <<"c">>, <<"a", ".", "c">> }

\* The paths of the directories of tree t, the walked directory (<<>>)
\* included.
DirPaths(t) == {<<>>} \cup {e.path : e \in {x \in t : x.kind = "dir"}}

Paths(t) == {e.path : e \in t}

\* The trees that add one entry to t: a file or a directory, under a
\* directory of t, with a name that its directory does not hold yet.
Extend(t) ==
    { t \cup {[path |-> Append(p, n), kind |-> k]} :
        <<p, n, k>> \in { x \in DirPaths(t) \X Names \X {"file", "dir"} :
                            /\ Len(x[1]) < MaxDepth
                            /\ Append(x[1], x[2]) \notin Paths(t) } }

RECURSIVE TreesUpTo(_)
TreesUpTo(k) ==
    IF k = 0 THEN {{}}
    ELSE LET T == TreesUpTo(k - 1) IN T \cup UNION {Extend(t) : t \in T}

Trees == TreesUpTo(MaxEntries)

EndsWithPrefixBug(name, suffix) ==
    /\ Len(suffix) <= Len(name)
    /\ SubSeq(name, 1, Len(suffix)) = suffix

\* str.endswith
EndsWith(name, suffix) ==
    /\ Len(suffix) <= Len(name)
    /\ SubSeq(name, Len(name) - Len(suffix) + 1, Len(name)) = suffix

\* os.path.join(root, file): the path of entry `file` of directory `root`
Join(root, file) == Append(root, file)

\* What os.walk yields for directory root of tree t: its subdirectories and
\* its other entries, by name.
SubDirs(t, root) ==
    {e.path[Len(e.path)] :
        e \in {x \in t : /\ x.kind = "dir"
                         /\ Len(x.path) = Len(root) + 1
                         /\ SubSeq(x.path, 1, Len(root)) = root}}

Files(t, root) ==
    {e.path[Len(e.path)] :
        e \in {x \in t : /\ x.kind = "file"
                         /\ Len(x.path) = Len(root) + 1
                         /\ SubSeq(x.path, 1, Len(root)) = root}}

\* The inner loop over one directory's files, in listing order.
RECURSIVE Collect(_, _, _)
Collect(root, files, suffix) ==
    IF files = <<>> THEN <<>>
    ELSE (IF EndsWith(Head(files), suffix)
          THEN <<Join(root, Head(files))>> ELSE <<>>)
         \o Collect(root, Tail(files), suffix)

----------------------------------------------------------------------------
(* The documents that the readers are given *)

Texts == {"", "a", "b"}

\* A shape either has a text attribute (a text frame) or has none (a
\* picture, a group, a graphic frame).
Shapes == [hasText : {TRUE}, text : Texts] \cup {[hasText |-> FALSE, text |-> ""]}

\* Presentations: at most `slides` slides holding at most `units` shapes.
RECURSIVE Presentations(_, _)
Presentations(slides, units) ==
    IF slides = 0 THEN {<<>>}
    ELSE {<<>>} \cup
         UNION { {<<sl>> \o d : d \in Presentations(slides - 1, units - Len(sl))} :
                    sl \in SeqsUpTo(Shapes, units) }

TextLists == SeqsUpTo(Texts, MaxUnits)

----------------------------------------------------------------------------
Init ==
    /\ pc = "idle"
    /\ fn = "none"
    /\ arg = NoArg
    /\ ret = Pending
    /\ printed = <<>>
    /\ exc = "none"
    /\ acc = <<>>
    /\ i = 0
    /\ j = 0
    /\ stack = <<>>
    /\ handles = {}
    /\ hnd = 0
    /\ backend \in {"agg", "interactive"}
    /\ figs = <<>>
    /\ open = <<>>
    /\ fig = NoFig
    /\ pfig = NoPlotlyFig
    /\ labels = <<>>

\* The caller has taken the result; the call's frame is gone.
Continue ==
    /\ pc = "done"
    /\ pc' = "idle"
    /\ fn' = "none"
    /\ arg' = NoArg
    /\ ret' = Pending
    /\ printed' = <<>>
    /\ exc' = "none"
    /\ acc' = <<>>
    /\ i' = 0
    /\ j' = 0
    /\ stack' = <<>>
    /\ hnd' = 0
    /\ fig' = NoFig
    /\ pfig' = NoPlotlyFig
    /\ labels' = <<>>
    /\ figs' = [n \in Range(open) |-> figs[n]]
    /\ UNCHANGED <<handles, backend, open>>

----------------------------------------------------------------------------
(* get_all_suffix_files *)

CallGetAllSuffixFiles ==
    /\ pc = "idle"
    /\ \E t \in Trees, s \in Suffixes :
          arg' = [directory |-> t, suffix |-> s]
    /\ fn' = "get_all_suffix_files"
    /\ pc' = "walk"
    /\ acc' = <<>>
    /\ stack' = << <<>> >>
    /\ UNCHANGED <<ret, printed, exc, i, j, handles, hnd>>
    /\ UNCHANGED plotVars

\* One iteration of `for root, _, files in os.walk(directory)`: the inner
\* loop over the files, in the order the directory lists them; os.walk
\* then descends into the subdirectories.
WalkDir ==
    /\ pc = "walk"
    /\ stack # <<>>
    /\ LET root == Head(stack)
       IN  /\ \E files \in Perms(Files(arg.directory, root)) :
                 acc' = acc \o Collect(root, files, arg.suffix)
           /\ \E dirs \in Perms(SubDirs(arg.directory, root)) :
                 stack' = [k \in 1..Len(dirs) |-> Join(root, dirs[k])]
                            \o Tail(stack)
    /\ UNCHANGED <<pc, fn, arg, ret, printed, exc, i, j, handles, hnd>>
    /\ UNCHANGED plotVars

WalkReturn ==
    /\ pc = "walk"
    /\ stack = <<>>
    /\ ret' = Value(acc)
    /\ pc' = "done"
    /\ UNCHANGED <<fn, arg, printed, exc, acc, i, j, stack, handles, hnd>>
    /\ UNCHANGED plotVars

----------------------------------------------------------------------------
(* extract_text_from_pptx_as_list *)

CallExtractTextFromPptx ==
    /\ pc = "idle"
    /\ \E d \in Presentations(MaxSlides, MaxUnits) : arg' = [file |-> d]
    /\ fn' = "extract_text_from_pptx_as_list"
    /\ pc' = "pptx_open"
    /\ UNCHANGED <<ret, printed, exc>>
    /\ UNCHANGED fileVars
    /\ UNCHANGED plotVars

\* presentation = pptx.Presentation(file_path); ppt_texts = []
PptxOpen ==
    /\ pc = "pptx_open"
    /\ pc' = "pptx_iter"
    /\ acc' = <<>>
    /\ i' = 1
    /\ j' = 1
    /\ UNCHANGED <<fn, arg, ret, printed, exc, stack, handles, hnd>>
    /\ UNCHANGED plotVars

\* pptx.Presentation raises: the first except clause
PptxOpenFail ==
    /\ pc = "pptx_open"
    /\ exc' = "Exception"
    /\ printed' = Append(printed, "Error opening PowerPoint file")
    /\ ret' = NoneResult
    /\ pc' = "done"
    /\ UNCHANGED <<fn, arg>>
    /\ UNCHANGED fileVars
    /\ UNCHANGED plotVars

PptxShapePrependBug ==
    /\ pc = "pptx_iter"
    /\ i <= Len(arg.file)
    /\ j <= Len(arg.file[i])
    /\ LET shape == arg.file[i][j]
       IN  acc' = IF shape.hasText THEN <<shape.text>> \o acc ELSE acc
    /\ j' = j + 1
    /\ UNCHANGED <<pc, fn, arg, ret, printed, exc, i, stack, handles, hnd>>
    /\ UNCHANGED plotVars

\* One iteration of `for shape in slide.shapes`: a shape that has a text
\* attribute adds its text, any other shape adds nothing.
PptxShape ==
    /\ pc = "pptx_iter"
    /\ i <= Len(arg.file)
    /\ j <= Len(arg.file[i])
    /\ LET shape == arg.file[i][j]
       IN  acc' = IF shape.hasText THEN Append(acc, shape.text) ELSE acc
    /\ j' = j + 1
    /\ UNCHANGED <<pc, fn, arg, ret, printed, exc, i, stack, handles, hnd>>
    /\ UNCHANGED plotVars

\* The shapes of slide i are exhausted: `for slide in presentation.slides`
\* moves to the next slide.
PptxNextSlide ==
    /\ pc = "pptx_iter"
    /\ i <= Len(arg.file)
    /\ j > Len(arg.file[i])
    /\ i' = i + 1
    /\ j' = 1
    /\ UNCHANGED <<pc, fn, arg, ret, printed, exc, acc, stack, handles, hnd>>
    /\ UNCHANGED plotVars

\* A library call of the extraction loop raises: the second except clause
PptxIterFail ==
    /\ pc = "pptx_iter"
    /\ exc' = "Exception"
    /\ printed' = Append(printed, "Error extracting text")
    /\ ret' = NoneResult
    /\ pc' = "done"
    /\ UNCHANGED <<fn, arg>>
    /\ UNCHANGED fileVars
    /\ UNCHANGED plotVars

PptxReturn ==
    /\ pc = "pptx_iter"
    /\ i > Len(arg.file)
    /\ ret' = Value(acc)
    /\ pc' = "done"
    /\ UNCHANGED <<fn, arg, printed, exc>>
    /\ UNCHANGED fileVars
    /\ UNCHANGED plotVars

----------------------------------------------------------------------------
(* read_word_document *)

CallReadWordDocument ==
    /\ pc = "idle"
    /\ \E d \in TextLists : arg' = [file |-> d]
    /\ fn' = "read_word_document"
    /\ pc' = "word_open"
    /\ UNCHANGED <<ret, printed, exc>>
    /\ UNCHANGED fileVars
    /\ UNCHANGED plotVars

\* doc = Document(file_path); text_content = []
WordOpen ==
    /\ pc = "word_open"
    /\ pc' = "word_iter"
    /\ acc' = <<>>
    /\ i' = 1
    /\ UNCHANGED <<fn, arg, ret, printed, exc, j, stack, handles, hnd>>
    /\ UNCHANGED plotVars

WordOpenFailSilentBug ==
    /\ pc = "word_open"
    /\ exc' = "Exception"
    /\ ret' = NoneResult
    /\ pc' = "done"
    /\ UNCHANGED <<fn, arg, printed>>
    /\ UNCHANGED fileVars
    /\ UNCHANGED plotVars

\* Document raises: the first except clause
WordOpenFail ==
    /\ pc = "word_open"
    /\ exc' = "Exception"
    /\ printed' = Append(printed, "Error opening Word document")
    /\ ret' = NoneResult
    /\ pc' = "done"
    /\ UNCHANGED <<fn, arg>>
    /\ UNCHANGED fileVars
    /\ UNCHANGED plotVars

WordParagraphSkipEmptyBug ==
    /\ pc = "word_iter"
    /\ i <= Len(arg.file)
    /\ acc' = IF arg.file[i] # "" THEN Append(acc, arg.file[i]) ELSE acc
    /\ i' = i + 1
    /\ UNCHANGED <<pc, fn, arg, ret, printed, exc, j, stack, handles, hnd>>
    /\ UNCHANGED plotVars

\* One iteration of `for paragraph in doc.paragraphs`
WordParagraph ==
    /\ pc = "word_iter"
    /\ i <= Len(arg.file)
    /\ acc' = Append(acc, arg.file[i])
    /\ i' = i + 1
    /\ UNCHANGED <<pc, fn, arg, ret, printed, exc, j, stack, handles, hnd>>
    /\ UNCHANGED plotVars

\* A library call of the reading loop raises: the second except clause
WordIterFail ==
    /\ pc = "word_iter"
    /\ exc' = "Exception"
    /\ printed' = Append(printed, "Error reading text content")
    /\ ret' = NoneResult
    /\ pc' = "done"
    /\ UNCHANGED <<fn, arg>>
    /\ UNCHANGED fileVars
    /\ UNCHANGED plotVars

WordReturn ==
    /\ pc = "word_iter"
    /\ i > Len(arg.file)
    /\ ret' = Value(acc)
    /\ pc' = "done"
    /\ UNCHANGED <<fn, arg, printed, exc>>
    /\ UNCHANGED fileVars
    /\ UNCHANGED plotVars

----------------------------------------------------------------------------
(* read_pdf_document *)

\* The descriptor open() returns: the lowest one that is not in use.
FreshHandle ==
    CHOOSE h \in 1..(Cardinality(handles) + 1) :
        /\ h \notin handles
        /\ \A k \in 1..(h - 1) : k \in handles

CallReadPdfDocument ==
    /\ pc = "idle"
    /\ \E d \in TextLists : arg' = [file |-> d]
    /\ fn' = "read_pdf_document"
    /\ pc' = "pdf_open"
    /\ UNCHANGED <<ret, printed, exc>>
    /\ UNCHANGED fileVars
    /\ UNCHANGED plotVars

\* with open(file_path, 'rb') as pdf_file
PdfOpen ==
    /\ pc = "pdf_open"
    /\ hnd' = FreshHandle
    /\ handles' = handles \cup {FreshHandle}
    /\ pc' = "pdf_reader"
    /\ UNCHANGED <<fn, arg, ret, printed, exc, acc, i, j, stack>>
    /\ UNCHANGED plotVars

\* pdf_reader = PyPDF2.PdfReader(pdf_file)
PdfReader ==
    /\ pc = "pdf_reader"
    /\ pc' = "pdf_count"
    /\ UNCHANGED <<fn, arg, ret, printed, exc>>
    /\ UNCHANGED fileVars
    /\ UNCHANGED plotVars

\* num_pages = len(pdf_reader.pages)
PdfCount ==
    /\ pc = "pdf_count"
    /\ j' = Len(arg.file)
    /\ i' = 0
    /\ acc' = <<>>
    /\ pc' = "pdf_pages"
    /\ UNCHANGED <<fn, arg, ret, printed, exc, stack, handles, hnd>>
    /\ UNCHANGED plotVars

\* One element of the comprehension:
\* pdf_reader.pages[page_num].extract_text() for page_num in range(num_pages)
PdfPage ==
    /\ pc = "pdf_pages"
    /\ i < j
    /\ acc' = Append(acc, arg.file[i + 1])
    /\ i' = i + 1
    /\ UNCHANGED <<pc, fn, arg, ret, printed, exc, j, stack, handles, hnd>>
    /\ UNCHANGED plotVars

\* The with block ends: the handle is closed.
PdfClose ==
    /\ pc = "pdf_pages"
    /\ i >= j
    /\ handles' = handles \ {hnd}
    /\ pc' = "pdf_return"
    /\ UNCHANGED <<fn, arg, ret, printed, exc, acc, i, j, stack, hnd>>
    /\ UNCHANGED plotVars

PdfFailLeakBug ==
    /\ pc \in {"pdf_open", "pdf_reader", "pdf_count", "pdf_pages"}
    /\ exc' = "Exception"
    /\ printed' = Append(printed, "Error reading PDF document")
    /\ ret' = NoneResult
    /\ pc' = "done"
    /\ UNCHANGED <<fn, arg>>
    /\ UNCHANGED fileVars
    /\ UNCHANGED plotVars

PdfFailPartialBug ==
    /\ pc \in {"pdf_open", "pdf_reader", "pdf_count", "pdf_pages"}
    /\ exc' = "Exception"
    /\ handles' = handles \ {hnd}
    /\ printed' = Append(printed, "Error reading PDF document")
    /\ ret' = IF pc = "pdf_pages" THEN Value(acc) ELSE NoneResult
    /\ pc' = "done"
    /\ UNCHANGED <<fn, arg, acc, i, j, stack, hnd>>
    /\ UNCHANGED plotVars

\* open(), PdfReader, len() or extract_text() raises: the with statement
\* closes the handle it opened (none when open() itself raised, hnd = 0),
\* then the except clause prints and returns None.
PdfFail ==
    /\ pc \in {"pdf_open", "pdf_reader", "pdf_count", "pdf_pages"}
    /\ exc' = "Exception"
    /\ handles' = handles \ {hnd}
    /\ printed' = Append(printed, "Error reading PDF document")
    /\ ret' = NoneResult
    /\ pc' = "done"
    /\ UNCHANGED <<fn, arg, acc, i, j, stack, hnd>>
    /\ UNCHANGED plotVars

PdfReturn ==
    /\ pc = "pdf_return"
    /\ ret' = Value(acc)
    /\ pc' = "done"
    /\ UNCHANGED <<fn, arg, printed, exc>>
    /\ UNCHANGED fileVars
    /\ UNCHANGED plotVars

----------------------------------------------------------------------------
Next ==
    \/ Continue
    \/ CallGetAllSuffixFiles
    \/ WalkDir
    \/ WalkReturn
    \/ CallExtractTextFromPptx
    \/ PptxOpen
    \/ PptxOpenFail
    \/ PptxShape
    \/ PptxNextSlide
    \/ PptxIterFail
    \/ PptxReturn
    \/ CallReadWordDocument
    \/ WordOpen
    \/ WordOpenFail
    \/ WordParagraph
    \/ WordIterFail
    \/ WordReturn
    \/ CallReadPdfDocument
    \/ PdfOpen
    \/ PdfReader
    \/ PdfCount
    \/ PdfPage
    \/ PdfClose
    \/ PdfFail
    \/ PdfReturn

Spec == Init /\ [][Next]_vars

----------------------------------------------------------------------------
(* plot_utils.py: matplotlib figures, pyplot's current figure and axes     *)

MinFigWidth == 10        \* max(10, len(x) / 10)
FigHeight == 6           \* fig_height = 6
BoxFigWidth == 10        \* figsize=(10, 6); 10 + max_label_length * 0.2
BoxFigHeight == 6        \* figsize=(10, 6); set_size_inches(fig_width, 6)
LabelGrowth == 2         \* 0.2 inch per character, in tenths of an inch
XTickRotation == 45      \* tick_params(axis='x', rotation=45)
LongLabel == 10          \* if max_label_length > 10
LongLabelRotation == 90  \* plt.xticks(rotation=90)

FigWidthMinBug(n) ==
    IF 10 * MinFigWidth <= (10 * n) \div 10 THEN 10 * MinFigWidth
    ELSE (10 * n) \div 10

\* fig_width = max(10, len(x) / 10), in tenths of an inch
FigWidth(n) == Max(10 * MinFigWidth, (10 * n) \div 10)

\* fig_width = 10 + max_label_length * 0.2, in tenths of an inch
BoxFigWidthFor(m) == 10 * BoxFigWidth + m * LabelGrowth

NeedsRotationGeqBug(m) == m >= LongLabel

\* max_label_length > 10
NeedsRotation(m) == m > LongLabel

\* The series of a call with n points: x, y1 and y2 differ in every point.
XData(n) == [k \in 1..n |-> k]
Y1Data(n) == [k \in 1..n |-> 10 + k]
Y2Data(n) == [k \in 1..n |-> 20 + 2 * k]

Y1Labels == {"Y1 Axis", "Y2 Axis"}
Y2Labels == {"Y1 Axis", "Y2 Axis"}
XLabels == {"X Axis"}
Titles == {"Dual Y Axis Plot"}

\* An Axes object as matplotlib creates it; sharex is the index, in its
\* figure, of the axes whose x axis it shares (0: its own).
NewAxes(sharex, side) ==
    [xlabel |-> "", ylabel |-> "", title |-> "", lines |-> <<>>,
     ylabelcolor |-> "black", ytickcolor |-> "black", xrotation |-> 0,
     sharex |-> sharex, side |-> side, legend |-> <<>>,
     xticklabels |-> <<>>]

\* plt.subplots(figsize=(w, h)): a figure with one axes, which is current
NewFigure(w, h) ==
    [figsize |-> <<w, h>>, axes |-> <<NewAxes(0, "left")>>, cur |-> 1,
     suptitle |-> ""]

\* pyplot numbers a new figure one above the highest open number.
NextNum ==
    IF open = <<>> THEN 1
    ELSE 1 + CHOOSE m \in Range(open) : \A k \in Range(open) : k <= m

\* plt.gcf(): the figure that was made current last
Gcf == open[Len(open)]

\* plt.show(): returns at once under a non-interactive backend; under an
\* interactive one it returns when the windows are closed, which destroys
\* the figures pyplot manages.
AfterShow == IF backend = "interactive" THEN <<>> ELSE open

LineLabels(lines) == [k \in 1..Len(lines) |-> lines[k].label]

----------------------------------------------------------------------------
(* create_dual_y_axis_plot_matplotlib *)

StartDualMatplotlib(n, y1l, y2l, xl, t) ==
    /\ pc = "idle"
    /\ Len(open) < MaxFigs
    /\ arg' = [x |-> XData(n), y1 |-> Y1Data(n), y2 |-> Y2Data(n),
               y1_label |-> y1l, y2_label |-> y2l, x_label |-> xl,
               title |-> t]
    /\ fn' = "create_dual_y_axis_plot_matplotlib"
    /\ pc' = "mpl_subplots"
    /\ UNCHANGED <<ret, printed, exc>>
    /\ UNCHANGED fileVars
    /\ UNCHANGED plotVars

CallDualMatplotlib ==
    \E n \in 0..MaxPts, y1l \in Y1Labels, y2l \in Y2Labels,
       xl \in XLabels, t \in Titles :
        StartDualMatplotlib(n, y1l, y2l, xl, t)

\* A call with the default labels and a series of any length up to MaxLenX
CallDualMatplotlibDefaults ==
    \E n \in 0..MaxLenX :
        StartDualMatplotlib(n, "Y1 Axis", "Y2 Axis", "X Axis",
                            "Dual Y Axis Plot")

\* fig_width, fig_height; fig, ax1 = plt.subplots(figsize=...)
MplSubplots ==
    /\ pc = "mpl_subplots"
    /\ LET num == NextNum
       IN  /\ figs' = [k \in (DOMAIN figs) \cup {num} |->
                         IF k = num
                         THEN NewFigure(FigWidth(Len(arg.x)), 10 * FigHeight)
                         ELSE figs[k]]
           /\ open' = Append(open, num)
           /\ fig' = num
    /\ pc' = "mpl_plot_y1"
    /\ UNCHANGED <<fn, arg, ret, printed, exc, backend, pfig, labels>>
    /\ UNCHANGED fileVars

\* ax1.plot(x, y1, ...); ax1.set_xlabel; ax1.set_ylabel; ax1.tick_params
MplPlotY1 ==
    /\ pc = "mpl_plot_y1"
    /\ figs' = [figs EXCEPT ![fig].axes[1] =
                  [@ EXCEPT !.lines = Append(@, [x |-> arg.x, y |-> arg.y1,
                                                 color |-> "blue",
                                                 label |-> arg.y1_label]),
                            !.xlabel = arg.x_label,
                            !.ylabel = arg.y1_label,
                            !.ylabelcolor = "blue",
                            !.ytickcolor = "blue"]]
    /\ pc' = "mpl_twinx"
    /\ UNCHANGED <<fn, arg, ret, printed, exc, backend, open, fig, pfig, labels>>
    /\ UNCHANGED fileVars

MplTwinxSwappedLabelBug ==
    /\ pc = "mpl_twinx"
    /\ LET ax2 == [NewAxes(1, "right") EXCEPT
                      !.lines = <<[x |-> arg.x, y |-> arg.y2, color |-> "red",
                                   label |-> arg.y2_label]>>,
                      !.ylabel = arg.y1_label,
                      !.ylabelcolor = "red",
                      !.ytickcolor = "red"]
       IN  figs' = [figs EXCEPT ![fig].axes = Append(@, ax2),
                                ![fig].cur = Len(figs[fig].axes) + 1]
    /\ pc' = "mpl_legend"
    /\ UNCHANGED <<fn, arg, ret, printed, exc, backend, open, fig, pfig, labels>>
    /\ UNCHANGED fileVars

\* ax2 = ax1.twinx(): a new axes of the same figure that shares ax1's x
\* axis, has its y axis on the right and becomes the current axes;
\* ax2.plot(x, y2, ...); ax2.set_ylabel; ax2.tick_params
MplTwinx ==
    /\ pc = "mpl_twinx"
    /\ LET ax2 == [NewAxes(1, "right") EXCEPT
                      !.lines = <<[x |-> arg.x, y |-> arg.y2, color |-> "red",
                                   label |-> arg.y2_label]>>,
                      !.ylabel = arg.y2_label,
                      !.ylabelcolor = "red",
                      !.ytickcolor = "red"]
       IN  figs' = [figs EXCEPT ![fig].axes = Append(@, ax2),
                                ![fig].cur = Len(figs[fig].axes) + 1]
    /\ pc' = "mpl_legend"
    /\ UNCHANGED <<fn, arg, ret, printed, exc, backend, open, fig, pfig, labels>>
    /\ UNCHANGED fileVars

\* ax1.legend(lines + lines2, labels + labels2, ...);
\* ax1.tick_params(axis='x', rotation=45)
MplLegend ==
    /\ pc = "mpl_legend"
    /\ figs' = [figs EXCEPT ![fig].axes[1] =
                  [@ EXCEPT !.legend = LineLabels(figs[fig].axes[1].lines)
                                         \o LineLabels(figs[fig].axes[2].lines),
                            !.xrotation = XTickRotation]]
    /\ pc' = "mpl_title"
    /\ UNCHANGED <<fn, arg, ret, printed, exc, backend, open, fig, pfig, labels>>
    /\ UNCHANGED fileVars

\* plt.tight_layout(); plt.title(title): the title goes to the current
\* axes of pyplot's current figure.  (The subplot geometry that
\* tight_layout adjusts is not part of the figure records.)
MplTitle ==
    /\ pc = "mpl_title"
    /\ figs' = [figs EXCEPT ![Gcf].axes[figs[Gcf].cur].title = arg.title]
    /\ pc' = "mpl_show"
    /\ UNCHANGED <<fn, arg, ret, printed, exc, backend, open, fig, pfig, labels>>
    /\ UNCHANGED fileVars

\* plt.show()
MplShow ==
    /\ pc = "mpl_show"
    /\ open' = AfterShow
    /\ pc' = "mpl_return"
    /\ UNCHANGED <<fn, arg, ret, printed, exc, backend, figs, fig, pfig, labels>>
    /\ UNCHANGED fileVars

\* return fig, ax1, ax2
MplReturn ==
    /\ pc = "mpl_return"
    /\ ret' = Value([fig |-> fig, ax1 |-> 1, ax2 |-> 2])
    /\ pc' = "done"
    /\ UNCHANGED <<fn, arg, printed, exc>>
    /\ UNCHANGED fileVars
    /\ UNCHANGED plotVars

----------------------------------------------------------------------------
(* create_dual_y_axis_plot_plotly *)

\* The layout axis that a trace's yaxis reference names
LayoutAxis(ref) == IF ref \in {"y", "y1"} THEN "yaxis" ELSE "yaxis2"

NewAxis == [title |-> "", titlefont |-> "", tickfont |-> "",
            overlaying |-> "", side |-> ""]

CallDualPlotly ==
    /\ pc = "idle"
    /\ \E n \in 0..MaxPts, y1l \in Y1Labels, y2l \in Y2Labels,
          xl \in XLabels, t \in Titles :
          arg' = [x |-> XData(n), y1 |-> Y1Data(n), y2 |-> Y2Data(n),
                  y1_label |-> y1l, y2_label |-> y2l, x_label |-> xl,
                  title |-> t]
    /\ fn' = "create_dual_y_axis_plot_plotly"
    /\ pc' = "ply_figure"
    /\ UNCHANGED <<ret, printed, exc>>
    /\ UNCHANGED fileVars
    /\ UNCHANGED plotVars

\* fig = go.Figure()
PlyFigure ==
    /\ pc = "ply_figure"
    /\ pfig' = [data |-> <<>>,
                layout |-> [title |-> "", xaxis |-> NewAxis,
                            yaxis |-> NewAxis, yaxis2 |-> NewAxis,
                            legend |-> <<>>]]
    /\ pc' = "ply_trace1"
    /\ UNCHANGED <<fn, arg, ret, printed, exc, backend, figs, open, fig, labels>>
    /\ UNCHANGED fileVars

\* fig.add_trace(go.Scatter(x=x, y=y1, ..., name=y1_label, yaxis='y1'));
\* a trace that names no x axis is drawn against the first one, "x"
PlyTrace1 ==
    /\ pc = "ply_trace1"
    /\ pfig' = [pfig EXCEPT !.data =
                  Append(@, [x |-> arg.x, y |-> arg.y1,
                             mode |-> "lines+markers",
                             name |-> arg.y1_label, xaxis |-> "x",
                             yaxis |-> "y1"])]
    /\ pc' = "ply_trace2"
    /\ UNCHANGED <<fn, arg, ret, printed, exc, backend, figs, open, fig, labels>>
    /\ UNCHANGED fileVars

\* fig.add_trace(go.Scatter(x=x, y=y2, ..., name=y2_label, yaxis='y2'))
PlyTrace2 ==
    /\ pc = "ply_trace2"
    /\ pfig' = [pfig EXCEPT !.data =
                  Append(@, [x |-> arg.x, y |-> arg.y2,
                             mode |-> "lines+markers",
                             name |-> arg.y2_label, xaxis |-> "x",
                             yaxis |-> "y2"])]
    /\ pc' = "ply_layout"
    /\ UNCHANGED <<fn, arg, ret, printed, exc, backend, figs, open, fig, labels>>
    /\ UNCHANGED fileVars

\* fig.update_layout(title=..., xaxis=..., yaxis=..., yaxis2=..., legend=...)
PlyLayout ==
    /\ pc = "ply_layout"
    /\ pfig' = [pfig EXCEPT !.layout =
                  [title |-> arg.title,
                   xaxis |-> [NewAxis EXCEPT !.title = arg.x_label],
                   yaxis |-> [NewAxis EXCEPT !.title = arg.y1_label,
                                             !.titlefont = "blue",
                                             !.tickfont = "blue"],
                   yaxis2 |-> [NewAxis EXCEPT !.title = arg.y2_label,
                                              !.titlefont = "red",
                                              !.tickfont = "red",
                                              !.overlaying = "y",
                                              !.side = "right"],
                   legend |-> <<1, 11>>]]
    /\ pc' = "ply_return"
    /\ UNCHANGED <<fn, arg, ret, printed, exc, backend, figs, open, fig, labels>>
    /\ UNCHANGED fileVars

\* return fig
PlyReturn ==
    /\ pc = "ply_return"
    /\ ret' = Value(pfig)
    /\ pc' = "done"
    /\ UNCHANGED <<fn, arg, printed, exc>>
    /\ UNCHANGED fileVars
    /\ UNCHANGED plotVars

----------------------------------------------------------------------------
(* boxplot_by_column *)

\* A group key of n characters
Key(n) == [k \in 1..n |-> "x"]

KeyLens == {1, LongLabel, LongLabel + 1}

\* The rows of a data frame: a group key, or a missing one, and a value
Rows == {[isna |-> FALSE, group |-> Key(n), value |-> 1] : n \in KeyLens}
          \cup {[isna |-> TRUE, group |-> <<>>, value |-> 1]}

Frames == SeqsUpTo(Rows, MaxRows)

GroupCol == <<"d", "A", "y">>
CheckCol == <<"v", "a", "l">>

Upper(c) == CASE c = "d" -> "D" [] c = "v" -> "V" [] c = "a" -> "A"
              [] c = "y" -> "Y" [] c = "l" -> "L" [] OTHER -> c
Lower(c) == CASE c = "A" -> "a" [] OTHER -> c

\* str.capitalize
Capitalize(str) ==
    IF str = <<>> THEN <<>>
    ELSE <<Upper(str[1])>> \o [k \in 1..(Len(str) - 1) |-> Lower(str[k + 1])]

\* The keys of the groups pandas forms: the distinct keys of the rows, the
\* rows with a missing key dropped.
GroupKeys(data) == {r.group : r \in {q \in Range(data) : ~q.isna}}

\* The keys in sorted order (a key sorts before every longer key)
RECURSIVE Sorted(_)
Sorted(S) ==
    IF S = {} THEN <<>>
    ELSE LET lo == CHOOSE a \in S : \A b \in S : Len(a) <= Len(b)
         IN  <<lo>> \o Sorted(S \ {lo})

\* max(len(label) for label in labels), for a list that is not empty
MaxLabelLength(ls) ==
    CHOOSE m \in {Len(l) : l \in Range(ls)} :
        \A l \in Range(ls) : Len(l) <= m

CallBoxplotByColumn ==
    /\ pc = "idle"
    /\ Len(open) < MaxFigs
    /\ \E d \in Frames :
          arg' = [data |-> d, group_col |-> GroupCol, check_col |-> CheckCol]
    /\ fn' = "boxplot_by_column"
    /\ pc' = "box_subplots"
    /\ UNCHANGED <<ret, printed, exc>>
    /\ UNCHANGED fileVars
    /\ UNCHANGED plotVars

\* fig, ax1 = plt.subplots(figsize=(10, 6))
BoxSubplots ==
    /\ pc = "box_subplots"
    /\ LET num == NextNum
       IN  /\ figs' = [k \in (DOMAIN figs) \cup {num} |->
                         IF k = num
                         THEN NewFigure(10 * BoxFigWidth, 10 * BoxFigHeight)
                         ELSE figs[k]]
           /\ open' = Append(open, num)
           /\ fig' = num
    /\ pc' = "box_draw"
    /\ UNCHANGED <<fn, arg, ret, printed, exc, backend, pfig, labels>>
    /\ UNCHANGED fileVars

\* data.boxplot(column=check_col, by=group_col, ax=ax1): one box and one
\* x-tick label per group, unrotated, and pandas' own "Boxplot grouped by"
\* suptitle; then ax1.set_xlabel, ax1.set_ylabel, ax1.set_title
BoxDraw ==
    /\ pc = "box_draw"
    /\ figs' = [figs EXCEPT
                  ![fig].suptitle = <<"Boxplot grouped by ">> \o arg.group_col,
                  ![fig].axes[1] =
                     [@ EXCEPT !.xticklabels = Sorted(GroupKeys(arg.data)),
                               !.xrotation = 0,
                               !.xlabel = Capitalize(arg.group_col),
                               !.ylabel = Capitalize(arg.check_col),
                               !.title = <<"Boxplot of ">>
                                           \o Capitalize(arg.check_col)
                                           \o <<" by ">>
                                           \o Capitalize(arg.group_col)]]
    /\ pc' = "box_labels"
    /\ UNCHANGED <<fn, arg, ret, printed, exc, backend, open, fig, pfig, labels>>
    /\ UNCHANGED fileVars

BoxLabelsUndrawnAxesBug ==
    /\ pc = "box_labels"
    /\ labels' = NewAxes(0, "left").xticklabels
    /\ pc' = "box_max"
    /\ UNCHANGED <<fn, arg, ret, printed, exc, backend, figs, open, fig, pfig>>
    /\ UNCHANGED fileVars

\* labels = [item.get_text() for item in ax1.get_xticklabels()]
BoxLabels ==
    /\ pc = "box_labels"
    /\ labels' = figs[fig].axes[1].xticklabels
    /\ pc' = "box_max"
    /\ UNCHANGED <<fn, arg, ret, printed, exc, backend, figs, open, fig, pfig>>
    /\ UNCHANGED fileVars

\* max_label_length = max(...) of an empty list: ValueError, which nothing
\* in boxplot_by_column catches
BoxMaxOfNothing ==
    /\ pc = "box_max"
    /\ labels = <<>>
    /\ exc' = "ValueError"
    /\ ret' = Raise("ValueError")
    /\ pc' = "done"
    /\ UNCHANGED <<fn, arg, printed>>
    /\ UNCHANGED fileVars
    /\ UNCHANGED plotVars

\* max_label_length = max(...); fig_width = 10 + max_label_length * 0.2;
\* fig.set_size_inches(fig_width, 6)
BoxResize ==
    /\ pc = "box_max"
    /\ labels # <<>>
    /\ figs' = [figs EXCEPT ![fig].figsize =
                  <<BoxFigWidthFor(MaxLabelLength(labels)), 10 * BoxFigHeight>>]
    /\ pc' = "box_rotate"
    /\ UNCHANGED <<fn, arg, ret, printed, exc, backend, open, fig, pfig, labels>>
    /\ UNCHANGED fileVars

\* max_label_length = max(...); if max_label_length > 10:
\* plt.xticks(rotation=90), on the current axes of the current figure
BoxRotate ==
    /\ pc = "box_rotate"
    /\ figs' = IF NeedsRotation(MaxLabelLength(labels))
               THEN [figs EXCEPT ![Gcf].axes[figs[Gcf].cur].xrotation =
                                    LongLabelRotation]
               ELSE figs
    /\ pc' = "box_show"
    /\ UNCHANGED <<fn, arg, ret, printed, exc, backend, open, fig, pfig, labels>>
    /\ UNCHANGED fileVars

\* plt.suptitle(''); plt.show()
BoxShow ==
    /\ pc = "box_show"
    /\ figs' = [figs EXCEPT ![Gcf].suptitle = ""]
    /\ open' = AfterShow
    /\ pc' = "box_return"
    /\ UNCHANGED <<fn, arg, ret, printed, exc, backend, fig, pfig, labels>>
    /\ UNCHANGED fileVars

\* The function ends without a return statement.
BoxReturn ==
    /\ pc = "box_return"
    /\ ret' = NoneResult
    /\ pc' = "done"
    /\ UNCHANGED <<fn, arg, printed, exc>>
    /\ UNCHANGED fileVars
    /\ UNCHANGED plotVars

----------------------------------------------------------------------------
PlotNext ==
    \/ Continue
    \/ CallDualMatplotlib
    \/ MplSubplots
    \/ MplPlotY1
    \/ MplTwinx
    \/ MplLegend
    \/ MplTitle
    \/ MplShow
    \/ MplReturn
    \/ CallDualPlotly
    \/ PlyFigure
    \/ PlyTrace1
    \/ PlyTrace2
    \/ PlyLayout
    \/ PlyReturn
    \/ CallBoxplotByColumn
    \/ BoxSubplots
    \/ BoxDraw
    \/ BoxLabels
    \/ BoxMaxOfNothing
    \/ BoxResize
    \/ BoxRotate
    \/ BoxShow
    \/ BoxReturn

PlotSpec == Init /\ [][PlotNext]_vars

\* The figure width over every series length: calls with the default
\* labels under an interactive backend
WidthInit == Init /\ backend = "interactive"

WidthNext ==
    \/ Continue
    \/ CallDualMatplotlibDefaults
    \/ MplSubplots
    \/ MplPlotY1
    \/ MplTwinx
    \/ MplLegend
    \/ MplTitle
    \/ MplShow
    \/ MplReturn

WidthSpec == WidthInit /\ [][WidthNext]_vars

----------------------------------------------------------------------------
(* Properties of file_utils.py *)

Readers == {"extract_text_from_pptx_as_list", "read_word_document",
            "read_pdf_document"}

Diagnostics == {"Error opening PowerPoint file", "Error extracting text",
                "Error opening Word document", "Error reading text content",
                "Error reading PDF document"}

\* name = pre \o suffix for some prefix pre
HasSuffix(name, suffix) ==
    \E k \in 0..Len(name) : name = SubSeq(name, 1, k) \o suffix

\* The paths of the files of tree t, at any depth, whose name has the suffix
MatchingFiles(t, suffix) ==
    {e.path : e \in {x \in t : /\ x.kind = "file"
                               /\ HasSuffix(x.path[Len(x.path)], suffix)}}

RECURSIVE Flatten(_)
Flatten(ss) == IF ss = <<>> THEN <<>> ELSE Head(ss) \o Flatten(Tail(ss))

TextsOf(shapes) == [k \in 1..Len(shapes) |-> shapes[k].text]

IsTextShape(s) == s.hasText

Returned(f) == pc = "done" /\ fn = f /\ ret.kind = "value"

C2_FailureReturnsNone ==
    fn \in Readers =>
        /\ ret.kind # "raise"
        /\ (pc = "done" /\ exc # "none") => ret = NoneResult
        /\ (exc # "none") => pc = "done"

\* A reader that failed after it had collected a text
C2_Witness ==
    /\ pc = "done"
    /\ fn = "read_pdf_document"
    /\ exc # "none"
    /\ Len(acc) >= 1
    /\ ret = NoneResult

\* C3 as stated: the result of extract_text_from_pptx_as_list has one
\* entry per shape, the shapes' texts by slide and then by shape.
C3_OneEntryPerShape ==
    Returned("extract_text_from_pptx_as_list") =>
        /\ Len(ret.val) = Len(Flatten(arg.file))
        /\ ret.val = TextsOf(Flatten(arg.file))

\* C3, amended: the result has one entry per shape that has a text
\* attribute, the texts of those shapes by slide and then by shape.
C3_OneEntryPerTextShape ==
    Returned("extract_text_from_pptx_as_list") =>
        ret.val = TextsOf(SelectSeq(Flatten(arg.file), IsTextShape))

\* Two slides, a shape without text before shapes with different texts
C3_Witness ==
    /\ Returned("extract_text_from_pptx_as_list")
    /\ Len(arg.file) = 2
    /\ Len(arg.file[1]) >= 1 /\ Len(arg.file[2]) >= 1
    /\ Len(ret.val) >= 1
    /\ Len(ret.val) < Len(Flatten(arg.file))

\* C4: read_word_document returns the paragraphs' texts and
\* read_pdf_document the pages' texts, one entry each, in order, an empty
\* text included.
C4_OneEntryPerUnit ==
    (Returned("read_word_document") \/ Returned("read_pdf_document")) =>
        /\ Len(ret.val) = Len(arg.file)
        /\ \A k \in 1..Len(arg.file) : ret.val[k] = arg.file[k]

\* A document with an empty paragraph before a paragraph with text
C4_Witness ==
    /\ Returned("read_word_document")
    /\ Len(arg.file) = 2
    /\ arg.file[1] = ""
    /\ arg.file[2] # ""

\* C5: when read_pdf_document has returned, the handle it opened is
\* closed, and between calls no handle is open.
C5_HandleClosed ==
    /\ (pc = "done" /\ fn = "read_pdf_document") => hnd \notin handles
    /\ pc \in {"idle", "done"} => handles = {}

\* A call that opened the file, extracted a page and then failed
C5_Witness ==
    /\ pc = "done"
    /\ fn = "read_pdf_document"
    /\ hnd # 0
    /\ Len(acc) >= 1
    /\ ret = NoneResult

\* C6: a reader that returns None has printed exactly one diagnostic, and
\* a reader that returns a list has printed nothing.
C6_OneDiagnostic ==
    (pc = "done" /\ fn \in Readers) =>
        /\ ret.kind = "None" =>
              Len(printed) = 1 /\ printed[1] \in Diagnostics
        /\ ret.kind = "value" => printed = <<>>

\* A reader that failed to open its file
C6_Witness ==
    /\ pc = "done"
    /\ fn = "read_word_document"
    /\ ret = NoneResult
    /\ printed = <<"Error opening Word document">>

----------------------------------------------------------------------------
(* Properties of plot_utils.py *)

Mpl == "create_dual_y_axis_plot_matplotlib"
Plotly == "create_dual_y_axis_plot_plotly"
Boxplot == "boxplot_by_column"

C8_AxesAndLabels ==
    /\ Returned(Mpl) =>
          LET f == figs[ret.val.fig]
              a1 == f.axes[ret.val.ax1]
              a2 == f.axes[ret.val.ax2]
          IN  /\ ret.val.ax1 # ret.val.ax2
              /\ Len(a1.lines) = 1
              /\ a1.lines[1].x = arg.x /\ a1.lines[1].y = arg.y1
              /\ a1.side = "left" /\ a1.ylabel = arg.y1_label
              /\ Len(a2.lines) = 1
              /\ a2.lines[1].x = arg.x /\ a2.lines[1].y = arg.y2
              /\ a2.side = "right" /\ a2.ylabel = arg.y2_label
              /\ a1.sharex = 0 /\ a2.sharex = ret.val.ax1
              /\ a1.xlabel = arg.x_label
              /\ \E k \in 1..Len(f.axes) : f.axes[k].title = arg.title
    /\ Returned(Plotly) =>
          LET f == ret.val
          IN  /\ Len(f.data) = 2
              /\ f.data[1].x = arg.x /\ f.data[1].y = arg.y1
              /\ LayoutAxis(f.data[1].yaxis) = "yaxis"
              /\ f.layout.yaxis.title = arg.y1_label
              /\ f.data[2].x = arg.x /\ f.data[2].y = arg.y2
              /\ LayoutAxis(f.data[2].yaxis) = "yaxis2"
              /\ f.layout.yaxis2.title = arg.y2_label
              /\ f.layout.yaxis2.overlaying = "y"
              /\ f.data[1].xaxis = "x" /\ f.data[2].xaxis = "x"
              /\ f.layout.xaxis.title = arg.x_label
              /\ f.layout.title = arg.title

\* A matplotlib call with two different axis labels that returned while
\* pyplot still held an older figure
C8_Witness ==
    /\ Returned(Mpl)
    /\ arg.y1_label # arg.y2_label
    /\ Len(arg.x) >= 1
    /\ Len(open) >= 2
    /\ ret.val.fig = Gcf

\* C9: when boxplot_by_column has ended, its x-tick labels are rotated by
\* 90 degrees if one of them has more than 10 characters and are not
\* rotated if none has.
C9_RotationByLongestLabel ==
    (pc = "done" /\ fn = Boxplot /\ ret.kind # "raise") =>
        LET ax == figs[fig].axes[1]
        IN  /\ (\E l \in Range(ax.xticklabels) : Len(l) > 10) =>
                  ax.xrotation = 90
            /\ (\A l \in Range(ax.xticklabels) : Len(l) <= 10) =>
                  ax.xrotation = 0

\* Two labels, the longer one of 11 characters: rotated
C9_Witness ==
    /\ pc = "done"
    /\ fn = Boxplot
    /\ ret.kind # "raise"
    /\ Len(figs[fig].axes[1].xticklabels) = 2
    /\ \E l \in Range(figs[fig].axes[1].xticklabels) : Len(l) = 11
    /\ figs[fig].axes[1].xrotation = 90

\* C10: the figure of create_dual_y_axis_plot_matplotlib is 6 high and as
\* wide as the larger of 10 and len(x) / 10 (sizes in tenths): 10 for
\* every length up to 100, more than 10 exactly for the lengths above 100,
\* and never narrower than for a shorter series.
C10_FigureWidth ==
    (fn = Mpl /\ fig # NoFig) =>
        LET n == Len(arg.x)
            w == figs[fig].figsize[1]
            h == figs[fig].figsize[2]
        IN  /\ h = 60
            /\ w >= 100 /\ w >= n /\ (w = 100 \/ w = n)
            /\ n <= 100 => w = 100
            /\ w > 100 <=> n > 100
            /\ \A m \in 0..n : FigWidth(m) <= w

\* A series of 101 points: a figure 10.1 wide
C10_Witness ==
    /\ Returned(Mpl)
    /\ Len(arg.x) = 101
    /\ figs[ret.val.fig].figsize = <<101, 60>>

====
